---- MODULE Spec2Model ----
(***************************************************************************)
(* Model of Hubx.Space: the feed signal handlers (feed/signals.py) and the *)
(* seed-data orchestrator (scripts/populate_data.py).                      *)
(*                                                                         *)
(* The specifications of the module:                                       *)
(*   SpecFeed    - post_save / post_delete events reaching the handlers    *)
(*   SpecGen     - generate_unique_numbers run against a finite generator  *)
(*   SpecGenFair - SpecGen with a generator that keeps yielding new values *)
(*   SpecSeed    - main() of populate_data.py run repeatedly on a database *)
(***************************************************************************)
EXTENDS Integers, Sequences, FiniteSets, Bags, TLC

VARIABLES
    \* ---- feed/signals.py ------------------------------------------------
    eager,            \* settings.CELERY_TASK_ALWAYS_EAGER
    hasDeletePattern, \* hasattr(cache, "delete_pattern")
    event,            \* the signal being handled last: sender, signal, created
    calls,            \* calls the handler made to its collaborators, in order
    logged,           \* exceptions the handler logged during the last event
    outcome,          \* "none" | "returned" | "raised": how the handler ended
    handled,          \* number of events dispatched so far
    createdTotal,     \* Like/Comment events with created=True so far
    notifTotal,       \* enviar_para_usuario attempts so far
    taskTotal,        \* notificar_autor_sobre_interacao invocations so far
    \* ---- generate_unique_numbers ----------------------------------------
    gpc,              \* "off" | "loop" | "returned"
    dom,              \* the generator returns values of 1..dom
    count,            \* the count argument
    seen,             \* local: seen
    result,           \* local: result
    \* ---- scripts/populate_data.py main() --------------------------------
    pc,               \* position of main()
    db,               \* the database as the running script sees it
    saved,            \* the database at entry of the open atomic block
    run,              \* number of the current (or last) run of main()
    failedRuns,       \* runs that ended with an exception so far
    failure,          \* what ended the last failed run: "none" | "cpf" | "cnpj" | "other"
    org,              \* index in organizacoes of the organization populated
    idx,              \* loop index of the loop main() is in
    org_cnpjs,        \* local: org_cnpjs
    cpfs,             \* local: cpfs
    associados,       \* local: associados (emails of the users in the list)
    created_nucleos,  \* local: created_nucleos
    empresa_cnpjs     \* local: empresa_cnpjs

feedVars == <<eager, hasDeletePattern, event, calls, logged, outcome, handled,
              createdTotal, notifTotal, taskTotal>>
genVars  == <<gpc, dom, count>>
loopVars == <<seen, result>>
seedVars == <<pc, db, saved, run, failedRuns, failure, org, idx, org_cnpjs, cpfs,
              associados, created_nucleos, empresa_cnpjs>>
vars     == <<feedVars, genVars, loopVars, seedVars>>

(***************************************************************************)
(* Bounds of the model.                                                    *)
(***************************************************************************)
\* events dispatched to the handlers in one behaviour
MaxEvents == 3
\* largest generator domain / largest count tried on generate_unique_numbers
MaxDom == 4
MaxCount == 4

(***************************************************************************)
(* feed/signals.py                                                         *)
(***************************************************************************)
NoEvent == [sender |-> "none", signal |-> "none", created |-> FALSE]

\* What one handler invocation did: the collaborator calls in order, the
\* number of logged exceptions, and whether an exception left the handler.
Ran(cs, lg, raised) ==
    [calls |-> cs, logged |-> lg,
     outcome |-> IF raised THEN "raised" ELSE "returned"]

\* Mutant: the deferred task is dispatched from inside the try block, so a
\* failing enviar_para_usuario skips it.
notificar_like_task_in_try(created, enviar_raises, task_raises) ==
    IF ~created THEN Ran(<<>>, 0, FALSE)
    ELSE IF enviar_raises THEN Ran(<<"enviar_para_usuario">>, 1, FALSE)
    ELSE Ran(<<"enviar_para_usuario",
               IF eager THEN "task_inline" ELSE "task_delay">>,
             0, task_raises)

\* notificar_like(sender, instance, created): enviar_raises and task_raises
\* say what the two collaborators do when called.
notificar_like(created, enviar_raises, task_raises) ==
    IF ~created THEN Ran(<<>>, 0, FALSE)
    ELSE LET afterTry == IF enviar_raises
                         THEN Ran(<<"enviar_para_usuario">>, 1, FALSE)
                         ELSE Ran(<<"enviar_para_usuario">>, 0, FALSE)
             task == IF eager THEN "task_inline" ELSE "task_delay"
         IN  \* the task call is outside the try: its exception propagates
             Ran(Append(afterTry.calls, task), afterTry.logged, task_raises)

\* notificar_comment(sender, instance, created)
notificar_comment(created, enviar_raises, task_raises) ==
    IF ~created THEN Ran(<<>>, 0, FALSE)
    ELSE LET afterTry == IF enviar_raises
                         THEN Ran(<<"enviar_para_usuario">>, 1, FALSE)
                         ELSE Ran(<<"enviar_para_usuario">>, 0, FALSE)
             task == IF eager THEN "task_inline" ELSE "task_delay"
         IN  Ran(Append(afterTry.calls, task), afterTry.logged, task_raises)

\* Mutant: the cache operation is not inside the try block.
limpar_cache_feed_unguarded(op_raises) ==
    LET op == IF hasDeletePattern THEN "delete_pattern" ELSE "clear"
    IN  Ran(<<op>>, 0, op_raises)

\* limpar_cache_feed(**_kwargs): op_raises says whether the cache operation
\* that is called raises.
limpar_cache_feed(op_raises) ==
    LET op == IF hasDeletePattern THEN "delete_pattern" ELSE "clear"
    IN  IF op_raises THEN Ran(<<op>>, 1, FALSE) ELSE Ran(<<op>>, 0, FALSE)

CountCalls(cs, names) == Cardinality({i \in 1..Len(cs) : cs[i] \in names})

TaskCalls == {"task_inline", "task_delay"}

\* The signal dispatcher calling one receiver and recording what it did.
Dispatch(ev, r) ==
    /\ handled < MaxEvents
    /\ event' = ev
    /\ calls' = r.calls
    /\ logged' = r.logged
    /\ outcome' = r.outcome
    /\ handled' = handled + 1
    /\ createdTotal' = createdTotal
            + (IF ev.sender \in {"Like", "Comment"} /\ ev.created THEN 1 ELSE 0)
    /\ notifTotal' = notifTotal + CountCalls(r.calls, {"enviar_para_usuario"})
    /\ taskTotal' = taskTotal + CountCalls(r.calls, TaskCalls)
    /\ UNCHANGED <<eager, hasDeletePattern, genVars, loopVars, seedVars>>

PostSaveLike ==
    \E created \in BOOLEAN, enviar_raises \in BOOLEAN, task_raises \in BOOLEAN :
        Dispatch([sender |-> "Like", signal |-> "post_save", created |-> created],
                 notificar_like(created, enviar_raises, task_raises))

PostSaveComment ==
    \E created \in BOOLEAN, enviar_raises \in BOOLEAN, task_raises \in BOOLEAN :
        Dispatch([sender |-> "Comment", signal |-> "post_save", created |-> created],
                 notificar_comment(created, enviar_raises, task_raises))

PostSavePost ==
    \E created \in BOOLEAN, op_raises \in BOOLEAN :
        Dispatch([sender |-> "Post", signal |-> "post_save", created |-> created],
                 limpar_cache_feed(op_raises))

PostDeletePost ==
    \E op_raises \in BOOLEAN :
        Dispatch([sender |-> "Post", signal |-> "post_delete", created |-> FALSE],
                 limpar_cache_feed(op_raises))

(***************************************************************************)
(* scripts/populate_data.py: generate_unique_numbers                       *)
(***************************************************************************)
\* Mutant: the membership test on seen is dropped.
LoopBodyNoSeen(s, r, num) == [seen |-> s \cup {num}, result |-> Append(r, num)]

\* One iteration of the while loop, given the value generator() returned.
LoopBody(s, r, num) ==
    IF num \notin s
    THEN [seen |-> s \cup {num}, result |-> Append(r, num)]
    ELSE [seen |-> s, result |-> r]

\* The loop condition.
LoopCond(r, n) == Len(r) < n

GenIterate ==
    /\ gpc = "loop"
    /\ LoopCond(result, count)
    /\ \E num \in 1..dom :
          LET b == LoopBody(seen, result, num)
          IN  seen' = b.seen /\ result' = b.result
    /\ UNCHANGED <<feedVars, genVars, seedVars>>

GenReturn ==
    /\ gpc = "loop"
    /\ ~LoopCond(result, count)
    /\ gpc' = "returned"
    /\ UNCHANGED <<dom, count, feedVars, loopVars, seedVars>>

(***************************************************************************)
(* scripts/populate_data.py: main()                                        *)
(***************************************************************************)
\* len(org_data): the two organizations of the script
NumOrgs == 2
\* len(nucleos_data): the two membership groups of each organization
NumNucleos == 2
\* associados created per organization: range(50) in the source
NumAssociados == 2
\* participants sampled per group: random.sample(associados, 40) in the source
SampleSize == 1
\* runs of main() in one behaviour
MaxRuns == 2

NoNucleo == [org |-> 0, slug |-> 0]
Email(kind, o, i) == [kind |-> kind, org |-> o, i |-> i]
RootEmail == Email("root", 0, 0)
AdminEmail(o) == Email("admin", o, 0)
AssocEmail(o, i) == Email("assoc", o, i)

\* The tables: orgs, users, nucleos and empresas list their rows in the order
\* of creation; parts (ParticipacaoNucleo) is the bag of its rows. The field
\* run of a row is the run of main() that created it.
EmptyDb == [orgs |-> <<>>, users |-> <<>>, nucleos |-> <<>>,
            parts |-> EmptyBag, empresas |-> <<>>]

\* The least positive integer outside held: the representative of every
\* value the program holds nowhere.
Fresh(held) ==
    CHOOSE v \in 1..(Cardinality(held) + 1) :
        v \notin held /\ \A w \in 1..(v - 1) : w \in held

\* generator(): what a call of CNPJ().generate or CPF().generate returns.
\* The program only ever tests a generated value for equality with the other
\* values of the same call (seen) and, through the unique column it is
\* stored in, with the values of that column (held). The call returns
\*   - a value the call has seen already,
\*   - a value of the column the call has not seen: they all behave alike,
\*     and the least of them stands for them, or
\*   - a value equal to none of these: Fresh stands for all of them.
Least(S) == CHOOSE v \in S : \A w \in S : v <= w
Generator(held) ==
    seen \cup (IF held \subseteq seen THEN {} ELSE {Least(held \ seen)})
         \cup {Fresh(held \cup seen)}

\* the values of Organizacao.cnpj, Empresa.cnpj and User.cpf (0: no cpf)
OrgCnpjs(d) == {d.orgs[i].cnpj : i \in 1..Len(d.orgs)}
EmpresaCnpjs(d) == {d.empresas[i].cnpj : i \in 1..Len(d.empresas)}
UserCpfs(d) == {d.users[i].cpf : i \in 1..Len(d.users)} \ {0}

\* ---- queries of the object-relational layer ---------------------------
OrgExists(d, slug) == \E i \in 1..Len(d.orgs) : d.orgs[i].slug = slug
SuperuserExists(d) == \E i \in 1..Len(d.users) : d.users[i].super
EmailExists(d, e) == \E i \in 1..Len(d.users) : d.users[i].email = e
\* Mutant: the group is looked up by its slug alone.
NucleoExistsBySlug(d, n) == \E i \in 1..Len(d.nucleos) : d.nucleos[i].slug = n.slug

NucleoExists(d, n) ==
    \E i \in 1..Len(d.nucleos) : d.nucleos[i].org = n.org /\ d.nucleos[i].slug = n.slug
PartExists(d, e, n) == BagIn([user |-> e, nucleo |-> n], d.parts)
\* User.objects.get(email=e): the row of the user
UserRow(d, e) == d.users[CHOOSE i \in 1..Len(d.users) : d.users[i].email = e]

\* ---- uniqueness constraints of the tables ------------------------------
\* Mutant: Empresa.cnpj without the unique constraint.
EmpresaCnpjNotUnique(d, cnpj) == FALSE

\* Empresa.cnpj is unique: an insert of a cnpj a company already has raises.
EmpresaCnpjTaken(d, cnpj) == cnpj \in EmpresaCnpjs(d)
\* User.cpf is unique: saving a cpf another user already has raises.
UserCpfTaken(d, cpf) == cpf \in UserCpfs(d)

\* ---- writes of the object-relational layer -----------------------------
Insert(d, table, row) == [d EXCEPT ![table] = Append(@, row)]

OrgRow(slug, cnpj, r) == [slug |-> slug, cnpj |-> cnpj, run |-> r]
UserNew(e, super, tipo, o, cpf, r) ==
    [email |-> e, super |-> super, tipo |-> tipo, org |-> o, cpf |-> cpf,
     nucleo |-> NoNucleo, run |-> r]
NucleoRow(n, r) == [org |-> n.org, slug |-> n.slug, run |-> r]
PartRow(e, n) == [user |-> e, nucleo |-> n]
EmpresaRow(e, o, cnpj, r) == [usuario |-> e, org |-> o, cnpj |-> cnpj, run |-> r]

\* Organizacao.objects.get_or_create(slug=..., defaults={cnpj: ...})
OrgGetOrCreate(d, slug, cnpj, r) ==
    IF OrgExists(d, slug) THEN d ELSE Insert(d, "orgs", OrgRow(slug, cnpj, r))

\* main(): a run of the script starts; the first statement that touches the
\* model's state is the call generate_unique_numbers(cnpj_generator.generate, 2).
StartRun ==
    /\ pc \in {"idle", "done", "aborted"}
    /\ run < MaxRuns
    /\ run' = run + 1
    /\ pc' = "org_cnpjs"
    /\ seen' = {} /\ result' = <<>>
    /\ org' = 0 /\ idx' = 0
    /\ UNCHANGED <<db, saved, failedRuns, failure, org_cnpjs, cpfs, associados,
                   created_nucleos, empresa_cnpjs, feedVars, genVars>>

\* One iteration of the loop of generate_unique_numbers called at position
\* at, with the generator drawing from values.
GenLoop(at, n, values) ==
    /\ pc = at
    /\ LoopCond(result, n)
    /\ \E num \in values :
          LET b == LoopBody(seen, result, num)
          IN  seen' = b.seen /\ result' = b.result

\* org_cnpjs = generate_unique_numbers(cnpj_generator.generate, len(org_data))
GenOrgCnpjs ==
    /\ GenLoop("org_cnpjs", NumOrgs, Generator(OrgCnpjs(db)))
    /\ UNCHANGED <<seedVars, feedVars, genVars>>

ReturnOrgCnpjs ==
    /\ pc = "org_cnpjs"
    /\ ~LoopCond(result, NumOrgs)
    /\ org_cnpjs' = result
    /\ seen' = {} /\ result' = <<>>
    /\ pc' = "orgs" /\ idx' = 1
    /\ UNCHANGED <<db, saved, run, failedRuns, failure, org, cpfs, associados,
                   created_nucleos, empresa_cnpjs, feedVars, genVars>>

\* for idx, org_info in enumerate(org_data): Organizacao.objects.get_or_create
\* (autocommit: each statement is committed as it is made)
CreateOrgs ==
    /\ pc = "orgs"
    /\ db' = OrgGetOrCreate(db, idx, org_cnpjs[idx], run)
    /\ saved' = db'
    /\ IF idx < NumOrgs
       THEN idx' = idx + 1 /\ UNCHANGED <<pc, org_cnpjs>>
       ELSE idx' = 0 /\ pc' = "root" /\ org_cnpjs' = <<>>
    /\ UNCHANGED <<run, failedRuns, failure, org, cpfs, associados,
                   created_nucleos, empresa_cnpjs, feedVars, genVars, loopVars>>

\* if not User.objects.filter(is_superuser=True).exists(): create_superuser(...)
CreateRoot ==
    /\ pc = "root"
    /\ db' = IF SuperuserExists(db) THEN db
             ELSE Insert(db, "users", UserNew(RootEmail, TRUE, "root", 0, 0, run))
    /\ saved' = db'
    /\ pc' = "begin" /\ org' = 1
    /\ UNCHANGED <<run, failedRuns, failure, idx, org_cnpjs, cpfs, associados,
                   created_nucleos, empresa_cnpjs, feedVars, genVars, loopVars>>

(***************************************************************************)
(* populate_for_org(org), decorated with transaction.atomic                *)
(***************************************************************************)
InTransaction ==
    pc \in {"admin", "cpfs", "associados", "nucleos", "participacoes",
            "empresa_cnpjs", "empresas", "commit"}

\* Locals of populate_for_org are gone when the call ends.
NoLocals ==
    /\ cpfs' = <<>> /\ associados' = <<>> /\ created_nucleos' = <<>>
    /\ empresa_cnpjs' = <<>> /\ seen' = {} /\ result' = <<>>

\* Mutant: the exception ends the script but the writes of the call stay
\* (populate_for_org without transaction.atomic).
RaiseNoRollback(why) ==
    /\ InTransaction
    /\ saved' = db
    /\ pc' = "aborted"
    /\ failure' = why
    /\ failedRuns' = failedRuns + 1
    /\ NoLocals
    /\ UNCHANGED <<db, run, org, idx, org_cnpjs, feedVars, genVars>>

\* An exception leaves populate_for_org: transaction.atomic rolls the
\* database back to its state at entry, nothing in main() catches it, and
\* the script ends.
Raise(why) ==
    /\ InTransaction
    /\ db' = saved
    /\ pc' = "aborted"
    /\ failure' = why
    /\ failedRuns' = failedRuns + 1
    /\ NoLocals
    /\ UNCHANGED <<saved, run, org, idx, org_cnpjs, feedVars, genVars>>

\* for org in organizacoes: populate_for_org(org) - entry of the atomic block
EnterPopulate ==
    /\ pc = "begin"
    /\ saved' = db
    /\ pc' = "admin"
    /\ UNCHANGED <<db, run, failedRuns, failure, org, idx, org_cnpjs, cpfs,
                   associados, created_nucleos, empresa_cnpjs, feedVars,
                   genVars, loopVars>>

\* Mutant: the admin is created without looking for its email.
AdminCreate(d, o, r) ==
    Insert(d, "users", UserNew(AdminEmail(o), FALSE, "admin", o, 0, r))

\* if not User.objects.filter(email=admin_email).exists(): create_user(...)
AdminIfMissing(d, o, r) ==
    IF EmailExists(d, AdminEmail(o)) THEN d
    ELSE Insert(d, "users", UserNew(AdminEmail(o), FALSE, "admin", o, 0, r))

CreateAdmin ==
    /\ pc = "admin"
    /\ db' = AdminIfMissing(db, org, run)
    /\ pc' = "cpfs"
    /\ seen' = {} /\ result' = <<>>
    /\ UNCHANGED <<saved, run, failedRuns, failure, org, idx, org_cnpjs, cpfs,
                   associados, created_nucleos, empresa_cnpjs, feedVars, genVars>>

\* cpfs = generate_unique_numbers(cpf_generator.generate, 50)
GenCpfs ==
    /\ GenLoop("cpfs", NumAssociados, Generator(UserCpfs(db)))
    /\ UNCHANGED <<seedVars, feedVars, genVars>>

ReturnCpfs ==
    /\ pc = "cpfs"
    /\ ~LoopCond(result, NumAssociados)
    /\ cpfs' = result
    /\ seen' = {} /\ result' = <<>>
    /\ pc' = "associados" /\ idx' = 1
    /\ associados' = <<>>
    /\ UNCHANGED <<db, saved, run, failedRuns, failure, org, org_cnpjs,
                   created_nucleos, empresa_cnpjs, feedVars, genVars>>

\* After the last iteration of the loop over range(50); cpfs is not read again.
AssociadosNext ==
    IF idx < NumAssociados
    THEN idx' = idx + 1 /\ UNCHANGED <<pc, cpfs>>
    ELSE idx' = 0 /\ pc' = "nucleos" /\ cpfs' = <<>>

\* for i in range(50): the user with the email exists and is reused
ReuseAssociado ==
    /\ pc = "associados"
    /\ EmailExists(db, AssocEmail(org, idx))
    /\ associados' = Append(associados, AssocEmail(org, idx))
    /\ AssociadosNext
    /\ UNCHANGED <<db, saved, run, failedRuns, failure, org, org_cnpjs,
                   created_nucleos, empresa_cnpjs, feedVars, genVars, loopVars>>

\* for i in range(50): create_user(...), user.cpf = cpfs[i], user.save(...)
CreateAssociado ==
    /\ pc = "associados"
    /\ ~EmailExists(db, AssocEmail(org, idx))
    /\ ~UserCpfTaken(db, cpfs[idx])
    /\ db' = Insert(db, "users",
                    UserNew(AssocEmail(org, idx), FALSE, "associado", org,
                            cpfs[idx], run))
    /\ associados' = Append(associados, AssocEmail(org, idx))
    /\ AssociadosNext
    /\ UNCHANGED <<saved, run, failedRuns, failure, org, org_cnpjs,
                   created_nucleos, empresa_cnpjs, feedVars, genVars, loopVars>>

\* user.save(update_fields=["cpf", ...]) with a cpf another user has
CpfCollision ==
    /\ pc = "associados"
    /\ ~EmailExists(db, AssocEmail(org, idx))
    /\ UserCpfTaken(db, cpfs[idx])
    /\ Raise("cpf")

\* Nucleo.objects.get_or_create(organizacao=org, slug=...) for the entries
\* of nucleos_data from the k-th on
RECURSIVE NucleosGetOrCreate(_, _, _, _)
NucleosGetOrCreate(d, o, k, r) ==
    IF k > NumNucleos THEN d
    ELSE LET n == [org |-> o, slug |-> k]
             d1 == IF NucleoExists(d, n) THEN d
                   ELSE Insert(d, "nucleos", NucleoRow(n, r))
         IN  NucleosGetOrCreate(d1, o, k + 1, r)

\* for nucleo_info in nucleos_data: ...; created_nucleos.append(nucleo)
CreateNucleos ==
    /\ pc = "nucleos"
    /\ db' = NucleosGetOrCreate(db, org, 1, run)
    /\ created_nucleos' = [k \in 1..NumNucleos |-> [org |-> org, slug |-> k]]
    /\ pc' = "participacoes" /\ idx' = 1
    /\ UNCHANGED <<saved, run, failedRuns, failure, org, org_cnpjs, cpfs,
                   associados, empresa_cnpjs, feedVars, genVars, loopVars>>

\* user.nucleo = nucleo; user.save(update_fields=["nucleo"])
SetNucleo(d, e, n) ==
    [d EXCEPT !.users =
        [i \in 1..Len(@) |->
            IF @[i].email = e THEN [@[i] EXCEPT !.nucleo = n] ELSE @[i]]]

\* Mutant: the primary group is assigned without testing that it is unset.
AssignNucleoAlways(d, e, n) == SetNucleo(d, e, n)

\* if not user.nucleo: user.nucleo = nucleo; user.save(...)
AssignNucleo(d, e, n) ==
    IF UserRow(d, e).nucleo = NoNucleo THEN SetNucleo(d, e, n) ELSE d

\* ParticipacaoNucleo.objects.get_or_create(user=user, nucleo=nucleo, ...)
ParticipacaoGetOrCreate(d, e, n) ==
    IF PartExists(d, e, n) THEN d
    ELSE [d EXCEPT !.parts = @ (+) SetToBag({PartRow(e, n)})]

\* for user in membros: ... (the body of the inner loop, from the k-th user)
RECURSIVE Participar(_, _, _, _)
Participar(d, membros, k, n) ==
    IF k > Len(membros) THEN d
    ELSE LET d1 == ParticipacaoGetOrCreate(d, membros[k], n)
             d2 == AssignNucleo(d1, membros[k], n)
         IN  Participar(d2, membros, k + 1, n)

\* random.sample(population, k): every list of k elements at distinct positions
Sample(population, k) ==
    {[i \in 1..k |-> population[f[i]]] :
        f \in {g \in [1..k -> 1..Len(population)] :
                  \A i, j \in 1..k : i # j => g[i] # g[j]}}

\* if len(associados) >= 40: for nucleo in created_nucleos:
\*     membros = random.sample(associados, 40); for user in membros: ...
Participacoes ==
    /\ pc = "participacoes"
    /\ IF Len(associados) >= SampleSize
       THEN /\ \E membros \in Sample(associados, SampleSize) :
                  db' = Participar(db, membros, 1, created_nucleos[idx])
            /\ IF idx < NumNucleos
               THEN idx' = idx + 1 /\ UNCHANGED <<pc, seen, result>>
               ELSE idx' = 0 /\ pc' = "empresa_cnpjs"
                    /\ seen' = {} /\ result' = <<>>
       ELSE /\ db' = db
            /\ idx' = 0 /\ pc' = "empresa_cnpjs"
            /\ seen' = {} /\ result' = <<>>
    /\ UNCHANGED <<saved, run, failedRuns, failure, org, org_cnpjs, cpfs,
                   associados, created_nucleos, empresa_cnpjs, feedVars, genVars>>

\* empresa_cnpjs = generate_unique_numbers(cnpj_generator.generate, len(associados))
GenEmpresaCnpjs ==
    /\ GenLoop("empresa_cnpjs", Len(associados), Generator(EmpresaCnpjs(db)))
    /\ UNCHANGED <<seedVars, feedVars, genVars>>

ReturnEmpresaCnpjs ==
    /\ pc = "empresa_cnpjs"
    /\ ~LoopCond(result, Len(associados))
    /\ empresa_cnpjs' = result
    /\ seen' = {} /\ result' = <<>>
    /\ pc' = "empresas" /\ idx' = 1
    /\ UNCHANGED <<db, saved, run, failedRuns, failure, org, org_cnpjs, cpfs,
                   associados, created_nucleos, feedVars, genVars>>

\* Mutant: get_or_create on the owner where the source has create.
EmpresaGetOrCreate(d, e, o, cnpj, r) ==
    IF \E i \in 1..Len(d.empresas) : d.empresas[i].usuario = e THEN d
    ELSE Insert(d, "empresas", EmpresaRow(e, o, cnpj, r))

\* Empresa.objects.create(usuario=user, organizacao=org, cnpj=..., ...)
EmpresaCreate(d, e, o, cnpj, r) == Insert(d, "empresas", EmpresaRow(e, o, cnpj, r))

\* for idx, user in enumerate(associados): Empresa.objects.create(...)
CreateEmpresa ==
    /\ pc = "empresas"
    /\ idx <= Len(associados)
    /\ ~EmpresaCnpjTaken(db, empresa_cnpjs[idx])
    /\ db' = EmpresaCreate(db, associados[idx], org, empresa_cnpjs[idx], run)
    /\ IF idx < Len(associados)
       THEN idx' = idx + 1 /\ UNCHANGED pc
       ELSE idx' = 0 /\ pc' = "commit"
    /\ UNCHANGED <<saved, run, failedRuns, failure, org, org_cnpjs, cpfs,
                   associados, created_nucleos, empresa_cnpjs, feedVars, genVars,
                   loopVars>>

\* Empresa.objects.create(...) with a cnpj another company has
CnpjCollision ==
    /\ pc = "empresas"
    /\ idx <= Len(associados)
    /\ EmpresaCnpjTaken(db, empresa_cnpjs[idx])
    /\ Raise("cnpj")

\* Any other exception inside populate_for_org (a database error on one of
\* its statements).
OtherFailure == Raise("other")

\* populate_for_org returns: the atomic block commits; the loop over
\* organizacoes goes on, and after the last organization main() ends.
ExitPopulate ==
    /\ pc = "commit"
    /\ saved' = db
    /\ NoLocals
    /\ IF org < NumOrgs
       THEN org' = org + 1 /\ pc' = "begin"
       ELSE org' = 0 /\ pc' = "done"
    /\ UNCHANGED <<db, run, failedRuns, failure, idx, org_cnpjs, feedVars, genVars>>

(***************************************************************************)
(* Specifications                                                          *)
(***************************************************************************)
FeedIdle ==
    /\ event = NoEvent /\ calls = <<>> /\ logged = 0 /\ outcome = "none"
    /\ handled = 0 /\ createdTotal = 0 /\ notifTotal = 0 /\ taskTotal = 0
GenOff == gpc = "off" /\ dom = 0 /\ count = 0
SeedIdle ==
    /\ pc = "idle" /\ db = EmptyDb /\ saved = EmptyDb
    /\ run = 0 /\ failedRuns = 0 /\ failure = "none" /\ org = 0 /\ idx = 0
    /\ org_cnpjs = <<>> /\ cpfs = <<>> /\ associados = <<>>
    /\ created_nucleos = <<>> /\ empresa_cnpjs = <<>>

InitFeed ==
    /\ eager \in BOOLEAN /\ hasDeletePattern \in BOOLEAN
    /\ FeedIdle /\ GenOff /\ SeedIdle
    /\ seen = {} /\ result = <<>>
NextFeed == PostSaveLike \/ PostSaveComment \/ PostSavePost \/ PostDeletePost
SpecFeed == InitFeed /\ [][NextFeed]_vars

InitGen ==
    /\ eager = FALSE /\ hasDeletePattern = FALSE
    /\ FeedIdle /\ SeedIdle
    /\ gpc = "loop" /\ dom \in 1..MaxDom /\ count \in 0..MaxCount
    /\ seen = {} /\ result = <<>>
NextGen == GenIterate \/ GenReturn
SpecGen == InitGen /\ [][NextGen]_vars
\* The generator of the claim: while it has values the loop has not seen, it
\* yields one of them sooner or later.
SpecGenFair ==
    /\ SpecGen
    /\ WF_vars(GenReturn)
    /\ WF_vars(GenIterate /\ result' # result)

InitSeed ==
    /\ eager = FALSE /\ hasDeletePattern = FALSE
    /\ FeedIdle /\ GenOff /\ SeedIdle
    /\ seen = {} /\ result = <<>>
NextSeed ==
    \/ StartRun
    \/ GenOrgCnpjs \/ ReturnOrgCnpjs \/ CreateOrgs \/ CreateRoot
    \/ EnterPopulate \/ CreateAdmin
    \/ GenCpfs \/ ReturnCpfs \/ ReuseAssociado \/ CreateAssociado \/ CpfCollision
    \/ CreateNucleos \/ Participacoes
    \/ GenEmpresaCnpjs \/ ReturnEmpresaCnpjs \/ CreateEmpresa \/ CnpjCollision
    \/ OtherFailure
    \/ ExitPopulate
SpecSeed == InitSeed /\ [][NextSeed]_vars

(***************************************************************************)
(* Claims on feed/signals.py (SpecFeed)                                    *)
(***************************************************************************)
IsReaction == event.sender \in {"Like", "Comment"}

\* C1: a post_save of a Like or a Comment with created=True makes exactly
\* one enviar_para_usuario attempt and then exactly one invocation of the
\* deferred task (inline in eager mode, .delay otherwise, never both), also
\* when the attempt raised; with created=False the handler calls nothing.
C1_OneAttemptOneTask ==
    /\ IsReaction =>
          calls = IF event.created
                  THEN <<"enviar_para_usuario",
                         IF eager THEN "task_inline" ELSE "task_delay">>
                  ELSE <<>>
    /\ notifTotal = createdTotal
    /\ taskTotal = createdTotal

\* a Like was created, enviar_para_usuario raised (and was logged), and the
\* task was still invoked
C1_Witness ==
    /\ event.sender = "Like" /\ event.created
    /\ logged = 1
    /\ CountCalls(calls, TaskCalls) = 1

\* C2 (as claimed): no Like or Comment save makes the handler raise,
\* whatever the notification service and the task service do.
C2_HandlersNeverRaise == IsReaction => outcome # "raised"

\* C3: for every Post post_save or post_delete, limpar_cache_feed attempts
\* exactly one cache operation - delete_pattern when the backend has it,
\* clear otherwise, never both, also when the operation raises - and returns
\* normally.
C3_OneCacheOperation ==
    event.sender = "Post" =>
        /\ calls = <<IF hasDeletePattern THEN "delete_pattern" ELSE "clear">>
        /\ outcome = "returned"

\* a Post was deleted, the cache operation raised and was logged
C3_Witness ==
    /\ event.sender = "Post" /\ event.signal = "post_delete"
    /\ logged = 1 /\ Len(calls) = 1

(***************************************************************************)
(* Claim on generate_unique_numbers (SpecGenFair)                          *)
(***************************************************************************)
\* C8: with a generator whose values come from a set of fewer than count
\* elements the call never returns: once every value has been seen the
\* result stops growing and len(result) < count stays true; with a generator
\* that goes on to yield count distinct values the call returns.
C8_TerminatesIffEnoughValues ==
    /\ [](dom < count => gpc # "returned")
    /\ (dom < count) ~> [](gpc = "loop" /\ Len(result) = dom /\ LoopCond(result, count))
    /\ (dom >= count) ~> (gpc = "returned")

\* the loop has seen every value of a generator with too few values
C8_Witness ==
    /\ gpc = "loop" /\ dom < count
    /\ seen = 1..dom /\ Len(result) = dom

(***************************************************************************)
(* Claims on scripts/populate_data.py (SpecSeed)                           *)
(***************************************************************************)
Members(d, o) == {i \in 1..Len(d.users) : d.users[i].tipo = "associado" /\ d.users[i].org = o}
Admins(d) == {i \in 1..Len(d.users) : d.users[i].tipo = "admin"}
Superusers(d) == {i \in 1..Len(d.users) : d.users[i].super}
\* the companies of organization o owned by the user with email e
Owned(d, e, o) == {i \in 1..Len(d.empresas) : d.empresas[i].usuario = e /\ d.empresas[i].org = o}
\* the groups and the companies of organization o
NucleosOf(d, o) == {i \in 1..Len(d.nucleos) : d.nucleos[i].org = o}
EmpresasOf(d, o) == {i \in 1..Len(d.empresas) : d.empresas[i].org = o}
\* the rows of a table that run r created
MadeIn(rows, r) == {i \in 1..Len(rows) : rows[i].run = r}
\* the participation rows of group n
PartsOf(d, n) == {p \in BagToSet(d.parts) : p.nucleo = n}

\* every run so far ran to its end
AllRunsComplete == failedRuns = 0

\* C4: main() run twice in sequence on an empty database leaves exactly 2
\* organizations, 1 super-user, 2 admins (one per organization) and no two
\* users with the same email; the second run creates no organization, no
\* super-user, no admin, no member and no membership group. (Both runs run
\* to their end: a run an exception ended is not a run of the claim.)
C4_SecondRunCreatesNothing ==
    (run >= 2 /\ AllRunsComplete) =>
        /\ \A r \in 2..run :
              /\ MadeIn(db.orgs, r) = {}
              /\ MadeIn(db.users, r) = {}
              /\ MadeIn(db.nucleos, r) = {}
        /\ pc = "done" =>
              /\ Len(db.orgs) = NumOrgs
              /\ Cardinality(Superusers(db)) = 1
              /\ Cardinality(Admins(db)) = NumOrgs
              /\ \A o \in 1..NumOrgs :
                    Cardinality({i \in Admins(db) : db.users[i].org = o}) = 1
              /\ \A i, j \in 1..Len(db.users) :
                    i # j => db.users[i].email # db.users[j].email

\* the second of two complete runs has ended
C4_Witness == run = 2 /\ AllRunsComplete /\ pc = "done"

\* C5: after a complete run every company the run created has a cnpj
\* different from that of every other company the run created, those of the
\* other organization included, whatever the generator returned.
C5_CnpjsOfRunDistinct ==
    pc = "done" =>
        \A i, j \in MadeIn(db.empresas, run) :
            i # j => db.empresas[i].cnpj # db.empresas[j].cnpj

\* a run over a database that already held companies has ended, with the
\* companies of both organizations created
C5_Witness ==
    /\ pc = "done" /\ run = 2
    /\ \A o \in 1..NumOrgs :
          \E i \in MadeIn(db.empresas, run) : db.empresas[i].org = o

C7_OneCompanyPerMemberPerRun ==
    pc = "done" =>
        \A o \in 1..NumOrgs :
            /\ Cardinality(Members(db, o)) = NumAssociados
            /\ \A i \in Members(db, o) :
                  LET mine == Owned(db, db.users[i].email, o)
                  IN  /\ Cardinality(mine \cap MadeIn(db.empresas, run)) = 1
                      /\ AllRunsComplete => Cardinality(mine) = run

\* a second complete run has ended: its members were all reused
C7_Witness ==
    /\ pc = "done" /\ run = 2 /\ AllRunsComplete
    /\ \A i \in Members(db, 1) : db.users[i].run = 1

\* C9: when populate_for_org fails for an organization, none of the admin,
\* member, group, participation, primary-group or company writes of that
\* call remain (the database is what it was at entry of the call); every
\* write of the organizations whose call completed in this run remains, and
\* so do the organization rows and the super-user.
C9_AllOrNothingPerOrg ==
    pc = "aborted" =>
        /\ db = saved
        /\ \A i \in MadeIn(db.users, run) : db.users[i].org # org
        /\ \A i \in MadeIn(db.nucleos, run) : db.nucleos[i].org # org
        /\ \A i \in MadeIn(db.empresas, run) : db.empresas[i].org # org
        /\ \A p \in BagToSet(db.parts) : EmailExists(db, p.user)
        /\ \A o \in 1..(org - 1) :
              /\ EmailExists(db, AdminEmail(o))
              /\ Cardinality(NucleosOf(db, o)) = NumNucleos
              /\ \A i \in Members(db, o) :
                    Cardinality(Owned(db, db.users[i].email, o)
                                    \cap MadeIn(db.empresas, run)) = 1
              /\ Cardinality(Members(db, o)) = NumAssociados
        /\ Len(db.orgs) = NumOrgs
        /\ Cardinality(Superusers(db)) = 1

\* the first run failed at the creation of the second company of the second
\* organization: the first organization is populated, the second is not
C9_Witness ==
    /\ pc = "aborted" /\ failure = "cnpj"
    /\ run = 1 /\ org = NumOrgs /\ idx = 2
    /\ Cardinality(Members(db, 1)) = NumAssociados
    /\ Members(db, org) = {}

\* The database as it is outside the open transaction.
Committed == IF InTransaction THEN saved ELSE db

\* every user of d that has a primary group has the same one in e
NucleoKept(d, e) ==
    \A i \in 1..Len(d.users) :
        d.users[i].nucleo # NoNucleo =>
            /\ i <= Len(e.users)
            /\ e.users[i].email = d.users[i].email
            /\ e.users[i].nucleo = d.users[i].nucleo

\* the groups of organization o, in the order populate_for_org goes through them
FirstGroupOf(d, e, o) ==
    IF \E k \in 1..NumNucleos : PartExists(d, e, [org |-> o, slug |-> k])
    THEN [org |-> o,
          slug |-> Least({k \in 1..NumNucleos : PartExists(d, e, [org |-> o, slug |-> k])})]
    ELSE NoNucleo

\* C10: user.nucleo is set at most once. No write of the script changes a
\* primary group that is set, in the same run or in a later one, and the
\* committed value never changes (only the rollback of a failed call takes
\* back what that call assigned). A member sampled into both groups keeps
\* the group processed first, a member sampled into no group stays without.
C10_NucleoSetOnce ==
    /\ [][ /\ pc' # "aborted" => NucleoKept(db, db')
           /\ NucleoKept(Committed, Committed') ]_vars
    /\ [](\A i \in 1..Len(db.users) :
             /\ db.users[i].nucleo # NoNucleo =>
                    PartExists(db, db.users[i].email, db.users[i].nucleo)
             /\ (run = 1 /\ pc = "done" /\ db.users[i].tipo = "associado") =>
                    db.users[i].nucleo
                        = FirstGroupOf(db, db.users[i].email, db.users[i].org))

\* a later run sampled a member into the first group whose primary group was
\* the second: the member kept the second
C10_Witness ==
    \E i \in 1..Len(db.users) :
        /\ db.users[i].nucleo = [org |-> db.users[i].org, slug |-> 2]
        /\ PartExists(db, db.users[i].email, [org |-> db.users[i].org, slug |-> 1])

====
